---------------------------- MODULE Spec2Model ----------------------------
(***************************************************************************)
(* HabrParser: the crawl orchestration of src/parser/habr_parser.py and    *)
(* the persistence sink of src/database/database.py as a state machine.    *)
(*                                                                         *)
(* A behaviour is the life of one HabrParser instance: calls of            *)
(* parsing_blog(main_url) or of the targeted entry parsing_articles(urls,  *)
(* parsing_comments=flag), one after the other.  Every coroutine started   *)
(* by asyncio.gather is a task record; one step of a task is one request   *)
(* attempt of the RetryClient, or one INSERT of Comments.load_comments.    *)
(* The event loop interleaves the steps of the tasks of a fan-out freely.  *)
(***************************************************************************)
EXTENDS Integers, Sequences, FiniteSets, TLC

(* ------------------------------ bounds -------------------------------- *)

\* largest retry budget a HabrParser is constructed with
MaxAttempts == 2
\* largest last-page number the index page reports
MaxPages == 3
\* largest number of article URLs of one run
MaxArticles == 2
\* largest number of comment paragraphs of one thread
MaxPars == 2
\* largest number of entry-point calls on one instance
MaxRuns == 2

(* --------------------------- program constants ------------------------ *)

\* run.py: url_blog
main_url == "https://habr.com/ru/companies/ru_mts/articles/"

\* the site origin every article href is prefixed with
Origin == "https://habr.com"

\* hrefs of the a.tm-title__link anchors the site serves
Hrefs == {"/a/", "/b/"}

\* exceptions one request attempt can end with
TransportErrors == {"TimeoutError", "ClientConnectionError"}

\* errors cursor.execute can raise for one INSERT
DbErrors == {"ProgrammingError", "DataError", "OperationalError"}

(* ------------------------------- state -------------------------------- *)

VARIABLES
    attempts,        \* self.retry_options.attempts
    exceptions,      \* self.retry_options.exceptions
    published,       \* the hrefs the index pages of the blog list
    articles_links,  \* self.articles_links
    comments_links,  \* self.comments_links
    phase,           \* position of the entry-point coroutine
    entry,           \* which entry point was called
    parsing_comments,\* the flag of parsing_articles
    articles_urls,   \* the articles_urls argument of parsing_articles
    last_page,       \* last_page of parsing_blog; -1 is None / not yet set
    tasks,           \* the coroutines of the fetches in flight or finished
    sink,            \* rows of the comments table, in insertion order
    fanned,          \* some fan-out of this run has started a task
    fatal,           \* what was raised out of the entry point, if anything
    calls            \* the entry-point calls that have ended, oldest first

vars == <<attempts, exceptions, published, articles_links, comments_links,
          phase, entry, parsing_comments, articles_urls, last_page, tasks,
          sink, fanned, fatal, calls>>

Terminal == {"ok", "warn", "raised"}
InFlight == {"fetching", "fetched", "loading"}

NoFatal == [exc |-> "none", kind |-> "none"]

(* ------------------------------ helpers ------------------------------- *)

\* all sequences over S of length at most n
SeqsUpTo(S, n) == UNION {[1..k -> S] : k \in 0..n}

RECURSIVE Count(_, _)
\* number of rows of the sequence rows that belong to task (kind, idx)
Count(rows, who) ==
    IF rows = <<>> THEN 0
    ELSE (IF <<Head(rows).kind, Head(rows).idx>> = who THEN 1 ELSE 0)
         + Count(Tail(rows), who)

\* a fresh coroutine for one fetch
NewTask(kind, idx, url) ==
    [kind |-> kind, idx |-> idx, url |-> url, st |-> "fetching", att |-> 0,
     okAt |-> 0, res |-> "none", exc |-> "none", body |-> <<>>, pos |-> 1,
     rej |-> 0]


(* ------------------- what the remote site can answer ------------------- *)

\* select_one found no pagination marker in the index page
NoMarker == -1

\* the index page as _get_last_page reads it: the marker's number, or none
IndexPages == {NoMarker} \cup (0..MaxPages)

\* an index page as _get_articles_links reads it: the hrefs of its anchors,
\* in document order (the run holds at most MaxArticles article links)
ListingPages == {h \in SeqsUpTo(published, MaxArticles) :
                    Len(articles_links) + Len(h) <= MaxArticles}

\* what one request attempt ends with: a response whose status is not in the
\* retryable set, a response whose status is, or an exception
Responses == {"ok", "retryable"}
Outcomes == Responses \cup TransportErrors \cup {"CancelledError"}

(* --------------------------- pure functions ---------------------------- *)

\* range(1, last_page) in place of range(1, last_page + 1)
PageLinksShort(url, last) ==
    [i \in 1..(last - 1) |-> url \o "page" \o ToString(i) \o "/"]

\* parsing_blog: f"{main_url}page{i}/" for i in range(1, last_page + 1)
PageLinks(url, last) ==
    [i \in 1..last |-> url \o "page" \o ToString(i) \o "/"]

\* a link extractor that leaves out the links the accumulator holds already
ArticleLinksNew(hrefs) ==
    SelectSeq([i \in 1..Len(hrefs) |-> Origin \o hrefs[i]],
              LAMBDA l : \A k \in DOMAIN articles_links : articles_links[k] # l)

\* _get_articles_links: f"https://habr.com{a_tag['href']}" for every anchor
ArticleLinks(hrefs) == [i \in 1..Len(hrefs) |-> Origin \o hrefs[i]]

\* parsing_articles: f"{article_url}comments/" for every article url
CommentsUrls(urls) == [i \in 1..Len(urls) |-> urls[i] \o "comments/"]

\* the text _get_text_from_article extracts from the page of url
ArticleText(url) == "article of " \o url

\* an extraction that yields the paragraphs of a thread last to first
CommentTextsReversed(url, n) ==
    [j \in 1..n |-> "comment " \o ToString(n + 1 - j) \o " of " \o url]

\* the texts _get_text_from_comments extracts from a thread of n paragraphs
CommentTexts(url, n) ==
    [j \in 1..n |-> "comment " \o ToString(j) \o " of " \o url]

(* ------------------------- the retrying fetcher ------------------------ *)
(* session.get of the RetryClient built from ExponentialRetry(attempts,    *)
(* statuses, exceptions) over a ClientSession with raise_for_status=False: *)
(* the request is repeated while its response has a retryable status or it *)
(* raised one of the configured exceptions, at most "attempts" times; the  *)
(* response of the last attempt is returned whatever its status, and the   *)
(* exception of the last attempt, or one that is not configured, is        *)
(* raised.  CancelledError is never retried.  The sleep between two        *)
(* attempts changes no state and is part of the attempt that follows it.   *)

\* a retry loop that hands a response over on the last attempt only
SkipRetryLastOnly(att, status_ok) == att >= attempts

\* RetryClient: the response of attempt att is handed to the caller when its
\* status is not retryable or the attempts are used up
SkipRetry(att, status_ok) == status_ok \/ att >= attempts

\* RetryClient: exception e of attempt att is followed by another attempt
RetryException(att, e) == att < attempts /\ e \in exceptions

\* an except clause that names CancelledError alone
HandledCancelOnly(e) == e = "CancelledError"

\* the except clause of every fetching coroutine
Handled(e) == e \in {"TimeoutError", "CancelledError"}

\* SqlTable._input_cmd: the errors its except clause swallows
Swallowed(e) == e \in {"ProgrammingError", "DataError"}

\* an INSERT that leaves the table alone when it holds the text already
InsertRowOnce(rows, row) ==
    IF \E k \in DOMAIN rows : rows[k].text = row.text THEN rows
    ELSE Append(rows, row)

\* INSERT INTO comments (text_comment) VALUES ('...'), accepted by the server
InsertRow(rows, row) == Append(rows, row)

\* exception e reaches the coroutine t: logged as a warning and the
\* coroutine returns, or raised out of the coroutine
Except(t, e) ==
    [t EXCEPT !.exc = e, !.st = IF Handled(e) THEN "warn" ELSE "raised"]

\* a wait that returns as soon as one coroutine has returned
GatherFirstDone(ts) ==
    /\ \A i \in DOMAIN ts : ts[i].st # "raised"
    /\ ts = <<>> \/ \E i \in DOMAIN ts : ts[i].st \in {"ok", "warn"}

\* asyncio.gather(*coroutines) returns to its awaiter: every coroutine has
\* returned
GatherDone(ts) == \A i \in DOMAIN ts : ts[i].st \in {"ok", "warn"}

\* the coroutines still running when a fan-out is replaced by the next
Leftover(ts) == SelectSeq(ts, LAMBDA t : t.st \in InFlight)

(* -------------------------------- Init --------------------------------- *)

\* a HabrParser right after __init__, no entry point called yet
Constructed ==
    /\ attempts \in 1..MaxAttempts
    /\ exceptions \in SUBSET TransportErrors
    /\ articles_links = <<>>
    /\ comments_links = <<>>
    /\ phase = "Idle"
    /\ entry = "none"
    /\ parsing_comments = FALSE
    /\ articles_urls = <<>>
    /\ last_page = NoMarker
    /\ tasks = <<>>
    /\ sink = <<>>
    /\ fanned = FALSE
    /\ fatal = NoFatal
    /\ calls = <<>>

\* the parser before a run, the blog listing articles
Init == Constructed /\ published = Hrefs

\* a parser constructed with attemps=1 and no retryable exception, before a
\* run
InitPlain == Init /\ attempts = 1 /\ exceptions = {}

\* the parser before a run, the index pages of the blog listing no article
InitEmptyBlog == Constructed /\ published = {}

(* --------------------------- task steps -------------------------------- *)

\* the coroutine of tasks[i] becomes t, nothing else changes
Step(i, t) ==
    /\ tasks' = [tasks EXCEPT ![i] = t]
    /\ UNCHANGED <<attempts, exceptions, published, articles_links,
                   comments_links, phase, entry, parsing_comments,
                   articles_urls, last_page, sink, fanned, fatal, calls>>

\* the body of the "async with session.get(...) as response" block of the
\* coroutine t, up to its first await on the sink, or to its return
Respond(i, t) ==
    CASE t.kind = "discover" ->
           \E page \in IndexPages :
              /\ tasks' = [tasks EXCEPT ![i] =
                     IF page = NoMarker THEN Except(t, "AttributeError")
                     ELSE [t EXCEPT !.st = "ok"]]
              /\ last_page' = page
              /\ UNCHANGED <<articles_links, sink>>
      [] t.kind = "page" ->
           \E hrefs \in ListingPages :
              /\ articles_links' = articles_links \o ArticleLinks(hrefs)
              /\ tasks' = [tasks EXCEPT ![i] =
                     [t EXCEPT !.st = "ok", !.body = hrefs]]
              /\ UNCHANGED <<last_page, sink>>
      [] t.kind = "article" ->
           \E found \in BOOLEAN :
              /\ tasks' = [tasks EXCEPT ![i] =
                     IF found
                     THEN [t EXCEPT !.st = "loading",
                                    !.body = <<ArticleText(t.url)>>]
                     ELSE Except(t, "AttributeError")]
              /\ UNCHANGED <<articles_links, last_page, sink>>
      [] t.kind = "comment" ->
           \E n \in 0..MaxPars :
              /\ tasks' = [tasks EXCEPT ![i] =
                     [t EXCEPT !.st = IF n = 0 THEN "ok" ELSE "loading",
                               !.body = CommentTexts(t.url, n)]]
              /\ UNCHANGED <<articles_links, last_page, sink>>

\* one request attempt of session.get for the coroutine tasks[i], ending
\* with one of outs: another attempt follows, or session.get hands a
\* response or an exception over
AttemptWith(i, outs) ==
    /\ tasks[i].st = "fetching"
    /\ \E out \in outs :
          LET a == tasks[i].att + 1
              t == [tasks[i] EXCEPT
                       !.att = a,
                       !.okAt = IF out = "ok" /\ @ = 0 THEN a ELSE @]
          IN  IF out \in Responses
              THEN IF SkipRetry(a, out = "ok")
                   THEN Step(i, [t EXCEPT !.st = "fetched", !.res =
                                    IF out = "ok" THEN "ok" ELSE "exhausted"])
                   ELSE Step(i, t)
              ELSE IF RetryException(a, out)
                   THEN Step(i, t)
                   ELSE Step(i, [t EXCEPT !.st = "fetched", !.res = out])

\* one request attempt, whatever it ends with
Attempt(i) == AttemptWith(i, Outcomes)

\* one request attempt over a network that answers every request with a
\* status that is not retryable
AttemptAnswered(i) == AttemptWith(i, {"ok"})

\* the coroutine tasks[i] goes on with what session.get handed over: the
\* body of its "async with" block, or its except clause
Process(i) ==
    /\ tasks[i].st = "fetched"
    /\ LET t == [tasks[i] EXCEPT !.att = 0, !.okAt = 0, !.res = "none"]
       IN  IF tasks[i].res \in {"ok", "exhausted"}
           THEN /\ Respond(i, t)
                /\ UNCHANGED <<attempts, exceptions, published,
                               comments_links, phase, entry,
                               parsing_comments, articles_urls, fanned,
                               fatal, calls>>
           ELSE Step(i, Except(t, tasks[i].res))

\* one INSERT of Comments.load_comments for the coroutine tasks[i], the
\* server answering with one of results
InsertWith(i, results) ==
    /\ tasks[i].st = "loading"
    /\ \E r \in results :
          LET t == tasks[i]
              next == [t EXCEPT !.pos = @ + 1,
                          !.st = IF t.pos = Len(t.body) THEN "ok" ELSE "loading"]
          IN  IF r = "stored"
              THEN /\ sink' = InsertRow(sink, [text |-> t.body[t.pos],
                                               kind |-> t.kind,
                                               idx |-> t.idx, par |-> t.pos])
                   /\ tasks' = [tasks EXCEPT ![i] = next]
                   /\ UNCHANGED <<attempts, exceptions, published,
                                  articles_links, comments_links, phase, entry,
                                  parsing_comments, articles_urls, last_page,
                                  fanned, fatal, calls>>
              ELSE IF Swallowed(r)
                   THEN Step(i, [next EXCEPT !.rej = @ + 1])
                   ELSE Step(i, Except(t, r))

\* one INSERT, whatever the server answers
Insert(i) == InsertWith(i, {"stored"} \cup DbErrors)

\* one INSERT into a table that accepts every row
InsertStored(i) == InsertWith(i, {"stored"})

\* asyncio.run cancels the coroutines left running when the entry point has
\* raised
Teardown(i) ==
    /\ phase = "Crashed"
    /\ tasks[i].st \in InFlight
    /\ Step(i, Except([tasks[i] EXCEPT !.att = 0, !.okAt = 0,
                                        !.res = "none"], "CancelledError"))

(* ------------------------- the entry points ---------------------------- *)

\* the entry point raises exc to its caller
Raise(exc, kind) ==
    /\ phase' = "Crashed"
    /\ fatal' = [exc |-> exc, kind |-> kind]

\* a comment stage that records the urls it is given in self.comments_links
ParsingCommentsRecording(urls) ==
    /\ comments_links' = comments_links \o urls
    /\ \E connected \in BOOLEAN :
          IF connected
          THEN /\ tasks' = Leftover(tasks) \o
                       [i \in 1..Len(urls) |-> NewTask("comment", i, urls[i])]
               /\ phase' = "FetchingComments"
               /\ fanned' = (fanned \/ Len(urls) > 0)
               /\ fatal' = fatal
          ELSE /\ Raise("OperationalError", "connect")
               /\ UNCHANGED <<tasks, fanned>>

\* parsing_comments(*comments_urls): the urls are its arguments, they are
\* kept in no attribute of the parser
ParsingComments(urls) ==
    /\ comments_links' = comments_links
    /\ \E connected \in BOOLEAN :
          IF connected
          THEN /\ tasks' = Leftover(tasks) \o
                       [i \in 1..Len(urls) |-> NewTask("comment", i, urls[i])]
               /\ phase' = "FetchingComments"
               /\ fanned' = (fanned \/ Len(urls) > 0)
               /\ fatal' = fatal
          ELSE /\ Raise("OperationalError", "connect")
               /\ UNCHANGED <<tasks, fanned>>

\* parsing_articles(*articles_urls, parsing_comments=flag), up to its gather
ParsingArticles(urls, flag) ==
    /\ articles_urls' = urls
    /\ parsing_comments' = flag
    /\ \E connected \in BOOLEAN :
          IF connected
          THEN /\ tasks' = Leftover(tasks) \o
                           [i \in 1..Len(urls) |-> NewTask("article", i, urls[i])]
               /\ phase' = "FetchingArticles"
               /\ fanned' = (fanned \/ Len(urls) > 0)
               /\ fatal' = fatal
          ELSE /\ Raise("OperationalError", "connect")
               /\ UNCHANGED <<tasks, fanned>>

\* a parsing_blog that empties the accumulator before it collects
StartBlogFresh ==
    /\ phase = "Idle"
    /\ entry' = "parsing_blog"
    /\ phase' = "DiscoveringPages"
    /\ tasks' = <<NewTask("discover", 1, main_url)>>
    /\ articles_links' = <<>>
    /\ UNCHANGED <<attempts, exceptions, published, comments_links,
                   parsing_comments, articles_urls, last_page, sink, fanned,
                   fatal, calls>>

\* parsing_blog(main_url) is called
StartBlog ==
    /\ phase = "Idle"
    /\ entry' = "parsing_blog"
    /\ phase' = "DiscoveringPages"
    /\ tasks' = <<NewTask("discover", 1, main_url)>>
    /\ UNCHANGED <<attempts, exceptions, published, articles_links,
                   comments_links, parsing_comments, articles_urls,
                   last_page, sink, fanned, fatal, calls>>

\* parsing_blog after "await self._get_last_page": builds page_links and
\* starts one task per page
DiscoverReturn ==
    /\ phase = "DiscoveringPages"
    /\ tasks[1].st \in Terminal
    /\ IF tasks[1].st = "ok"
       THEN /\ LET page_links == PageLinks(main_url, last_page)
               IN  tasks' = Leftover(tasks) \o
                            [i \in 1..Len(page_links) |->
                                NewTask("page", i, page_links[i])]
            /\ phase' = "FetchingPages"
            /\ fanned' = (last_page > 0)
            /\ fatal' = fatal
       ELSE /\ IF tasks[1].st = "warn"
               THEN Raise("TypeError", "discover")
               ELSE Raise(tasks[1].exc, "discover")
            /\ UNCHANGED <<tasks, fanned>>
    /\ UNCHANGED <<attempts, exceptions, published, articles_links,
                   comments_links, entry, parsing_comments, articles_urls,
                   last_page, sink, calls>>

\* parsing_blog after the gather of the page tasks
PagesDone ==
    /\ phase = "FetchingPages"
    /\ GatherDone(tasks)
    /\ ParsingArticles(articles_links, TRUE)
    /\ UNCHANGED <<attempts, exceptions, published, articles_links,
                   comments_links, entry, last_page, sink, calls>>

\* parsing_articles(*urls, parsing_comments=flag) is called directly, the
\* flag one of flags
StartArticlesWith(flags) ==
    /\ phase = "Idle"
    /\ entry' = "parsing_articles"
    /\ \E urls \in SeqsUpTo({Origin \o h : h \in Hrefs}, MaxArticles),
          flag \in flags : ParsingArticles(urls, flag)
    /\ UNCHANGED <<attempts, exceptions, published, articles_links,
                   comments_links, last_page, sink, calls>>

\* parsing_articles(*urls, parsing_comments=flag) is called directly
StartArticles == StartArticlesWith(BOOLEAN)

\* parsing_articles(*urls) is called directly, parsing_comments left False
StartArticlesOnly == StartArticlesWith({FALSE})

\* a parsing_articles that goes on to the comments whatever its flag
ArticlesDoneAlways ==
    /\ phase = "FetchingArticles"
    /\ GatherDone(tasks)
    /\ ParsingComments(CommentsUrls(articles_urls))
    /\ UNCHANGED <<attempts, exceptions, published, articles_links, entry,
                   parsing_comments, articles_urls, last_page, sink, calls>>

\* parsing_articles after the gather of the article tasks
ArticlesDone ==
    /\ phase = "FetchingArticles"
    /\ GatherDone(tasks)
    /\ IF parsing_comments
       THEN ParsingComments(CommentsUrls(articles_urls))
       ELSE /\ phase' = "Done"
            /\ UNCHANGED <<tasks, fanned, fatal, comments_links>>
    /\ UNCHANGED <<attempts, exceptions, published, articles_links, entry,
                   parsing_comments, articles_urls, last_page, sink, calls>>

\* parsing_comments after the gather of the comment tasks
CommentsDone ==
    /\ phase = "FetchingComments"
    /\ GatherDone(tasks)
    /\ phase' = "Done"
    /\ UNCHANGED <<attempts, exceptions, published, articles_links,
                   comments_links, entry, parsing_comments, articles_urls,
                   last_page, tasks, sink, fanned, fatal, calls>>

\* a gather re-raises the exception of a task to the entry point
GatherRaise ==
    /\ phase \in {"FetchingPages", "FetchingArticles", "FetchingComments"}
    /\ \E i \in DOMAIN tasks :
          /\ tasks[i].st = "raised"
          /\ Raise(tasks[i].exc, tasks[i].kind)
    /\ UNCHANGED <<attempts, exceptions, published, articles_links,
                   comments_links, entry, parsing_comments, articles_urls,
                   last_page, tasks, sink, fanned, calls>>

\* the call has ended, by returning or by raising with its coroutines torn
\* down, and the caller is about to call the same instance again: the locals
\* of the call are gone, the attributes of the parser and the table stay
Again ==
    /\ phase \in {"Done", "Crashed"}
    /\ \A i \in DOMAIN tasks : tasks[i].st \in Terminal
    /\ Len(calls) + 1 < MaxRuns
    /\ calls' = Append(calls,
                   [entry |-> entry, urls |-> articles_urls, phase |-> phase,
                    clean |-> \A i \in DOMAIN tasks :
                                 tasks[i].st = "ok" /\ tasks[i].rej = 0,
                    links |-> articles_links, rows |-> Len(sink)])
    /\ phase' = "Idle"
    /\ entry' = "none"
    /\ parsing_comments' = FALSE
    /\ articles_urls' = <<>>
    /\ last_page' = NoMarker
    /\ tasks' = <<>>
    /\ fanned' = FALSE
    /\ fatal' = NoFatal
    /\ UNCHANGED <<attempts, exceptions, published, articles_links,
                   comments_links, sink>>

Next ==
    \/ StartBlog
    \/ StartArticles
    \/ DiscoverReturn
    \/ PagesDone
    \/ ArticlesDone
    \/ CommentsDone
    \/ GatherRaise
    \/ \E i \in DOMAIN tasks : Attempt(i)
    \/ \E i \in DOMAIN tasks : Process(i)
    \/ \E i \in DOMAIN tasks : Insert(i)
    \/ \E i \in DOMAIN tasks : Teardown(i)

Spec == Init /\ [][Next]_vars

\* the steps of a run of the targeted entry point without comments
NextArticles ==
    \/ StartArticlesOnly
    \/ ArticlesDone
    \/ GatherRaise
    \/ \E i \in DOMAIN tasks : Attempt(i)
    \/ \E i \in DOMAIN tasks : Process(i)
    \/ \E i \in DOMAIN tasks : Insert(i)
    \/ \E i \in DOMAIN tasks : Teardown(i)

\* the runs parsing_articles(*urls) of the parser
SpecArticles == Init /\ [][NextArticles]_vars

\* the steps of a run of parsing_blog
NextBlog ==
    \/ StartBlog
    \/ DiscoverReturn
    \/ PagesDone
    \/ ArticlesDone
    \/ CommentsDone
    \/ GatherRaise
    \/ \E i \in DOMAIN tasks : Attempt(i)
    \/ \E i \in DOMAIN tasks : Process(i)
    \/ \E i \in DOMAIN tasks : Teardown(i)

\* the runs parsing_blog(main_url) over a blog whose pages list no article
SpecEmptyBlog == InitEmptyBlog /\ [][NextBlog]_vars

\* the steps of an instance whose targeted entry point is called, without
\* comments, time after time
NextRerun ==
    \/ StartArticlesOnly
    \/ ArticlesDone
    \/ GatherRaise
    \/ Again
    \/ \E i \in DOMAIN tasks : Attempt(i)
    \/ \E i \in DOMAIN tasks : Process(i)
    \/ \E i \in DOMAIN tasks : Insert(i)
    \/ \E i \in DOMAIN tasks : Teardown(i)

\* the runs parsing_articles(*urls) of one instance, one after the other
SpecRerun == Init /\ [][NextRerun]_vars

\* the steps of an instance whose entry points are called time after time,
\* over a network that answers every request and a table that accepts every
\* row
NextRecall ==
    \/ StartBlog
    \/ StartArticles
    \/ DiscoverReturn
    \/ PagesDone
    \/ ArticlesDone
    \/ CommentsDone
    \/ GatherRaise
    \/ Again
    \/ \E i \in DOMAIN tasks : AttemptAnswered(i)
    \/ \E i \in DOMAIN tasks : Process(i)
    \/ \E i \in DOMAIN tasks : InsertStored(i)
    \/ \E i \in DOMAIN tasks : Teardown(i)

\* the calls of the entry points of one plain instance, one after the other
SpecRecall == InitPlain /\ [][NextRecall]_vars

\* the shape of every reachable state
TypeOK ==
    /\ attempts \in 1..MaxAttempts
    /\ phase \in {"Idle", "DiscoveringPages", "FetchingPages",
                  "FetchingArticles", "FetchingComments", "Done", "Crashed"}
    /\ \A i \in DOMAIN tasks : tasks[i].st \in Terminal \cup InFlight

(* ------------------------------ properties ---------------------------- *)

\* the tasks of one kind, in the order they were started
TasksOf(kind) == SelectSeq(tasks, LAMBDA t : t.kind = kind)

\* some task of the kind has not finished
Running(kind) ==
    \E i \in DOMAIN tasks : tasks[i].kind = kind /\ tasks[i].st \in InFlight

\* some task of the kind has been started
Started(kind) == \E i \in DOMAIN tasks : tasks[i].kind = kind

\* the rows of the sink written by tasks of the kind
RowsOf(kind) == SelectSeq(sink, LAMBDA r : r.kind = kind)

\* the index fetch failed: it timed out or was cancelled (a warning), or the
\* pagination marker was absent
DiscoveryFailed ==
    \E i \in DOMAIN tasks :
       /\ tasks[i].kind = "discover"
       /\ \/ tasks[i].st = "warn"
          \/ tasks[i].st = "raised" /\ tasks[i].exc = "AttributeError"

\* C1: if page discovery fails (the index fetch times out or is cancelled, or
\* the pagination marker is absent) the run does not crash: no page, article
\* or comment fetch is issued, nothing is persisted, and the run ends Done.
C1_DiscoveryFailureEndsDone ==
    DiscoveryFailed =>
        /\ phase \in {"DiscoveringPages", "Done"}
        /\ ~fanned
        /\ sink = <<>>

\* C2: in the article stage every article whose fetch timed out ends with a
\* warning and no row, every article whose coroutine returned normally with
\* its insert accepted has exactly one row, and when timeouts are the only
\* failures the gather returns and the number of article rows is the number
\* of succeeded fetches.
C2_ArticleIsolation ==
    /\ \A i \in DOMAIN tasks :
          tasks[i].kind = "article" =>
             LET n == Count(sink, <<"article", tasks[i].idx>>)
             IN  /\ tasks[i].exc = "TimeoutError" =>
                       tasks[i].st = "warn" /\ n = 0
                 /\ tasks[i].st \in {"fetching", "fetched", "warn"} => n = 0
                 /\ tasks[i].st = "ok" /\ tasks[i].rej = 0 => n = 1
    /\ ( /\ phase = "FetchingArticles"
         /\ \A i \in DOMAIN tasks :
               \/ tasks[i].exc = "TimeoutError"
               \/ tasks[i].st = "ok" /\ tasks[i].rej = 0 )
       => /\ GatherDone(tasks)
          /\ Len(RowsOf("article")) =
                Cardinality({i \in DOMAIN tasks : tasks[i].st = "ok"})

\* C2 witness: two article fetches, one timed out, the other persisted
C2_Witness ==
    /\ phase = "FetchingArticles"
    /\ Len(tasks) = 2
    /\ tasks[1].st = "warn" /\ tasks[1].exc = "TimeoutError"
    /\ tasks[2].st = "ok" /\ tasks[2].rej = 0
    /\ Len(sink) = 1

\* C3: every transport failure of one fetch (timeout, cancellation, or a
\* connection error still failing when the attempts are used up) ends as a
\* warning of that task: it is not raised out of the task and it does not
\* abort the run.
C3_TransportFailureIsolated ==
    /\ \A i \in DOMAIN tasks :
          tasks[i].exc \in TransportErrors \cup {"CancelledError"} =>
             tasks[i].st = "warn"
    /\ fatal.exc \notin TransportErrors \cup {"CancelledError"}

\* C4: an article fetch whose every response has a retryable status makes
\* exactly "attempts" attempts and then ends as a failed fetch of its task:
\* the task logs a warning, extracts nothing and persists nothing from that
\* response.
C4_ExhaustedIsFailure ==
    [][\A i \in DOMAIN tasks :
          /\ tasks[i].kind = "article"
          /\ tasks[i].st = "fetched"
          /\ tasks[i].res = "exhausted"
          =>
             /\ tasks[i].att = attempts
             /\ tasks'[i].st \in {"fetched", "warn"}]_vars

\* C5: a fetch whose first response with a non-retryable status arrives on
\* attempt k (1 <= k <= attempts) hands that response to its caller after
\* exactly k attempts: no attempt follows the successful one.
C5_NoAttemptAfterSuccess ==
    \A i \in DOMAIN tasks :
       tasks[i].okAt # 0 =>
          /\ tasks[i].st = "fetched"
          /\ tasks[i].res = "ok"
          /\ tasks[i].att = tasks[i].okAt
          /\ tasks[i].okAt \in 1..attempts

\* C5 witness: a fetch that succeeded on its second attempt
C5_Witness ==
    \E i \in DOMAIN tasks :
       tasks[i].st = "fetched" /\ tasks[i].res = "ok" /\ tasks[i].okAt = 2

\* the place of a phase in the order of a run
Rank(p) ==
    CASE p = "Idle" -> 0
      [] p = "DiscoveringPages" -> 1
      [] p = "FetchingPages" -> 2
      [] p = "FetchingArticles" -> 3
      [] p = "FetchingComments" -> 4
      [] p \in {"Done", "Crashed"} -> 5

\* no task of a stage runs beside a task of a later stage, and the article
\* links are complete when parsing_blog hands them to parsing_articles
Barriers ==
    /\ Started("page") => ~Running("discover")
    /\ Started("article") => ~Running("discover") /\ ~Running("page")
    /\ Started("comment") =>
          ~Running("discover") /\ ~Running("page") /\ ~Running("article")
    /\ phase = "DiscoveringPages" =>
          ~Started("page") /\ ~Started("article") /\ ~Started("comment")
    /\ phase = "FetchingPages" => ~Started("article") /\ ~Started("comment")
    /\ phase = "FetchingArticles" => ~Started("comment")
    /\ entry = "parsing_blog"
          /\ phase \in {"FetchingArticles", "FetchingComments", "Done"}
       => articles_urls = articles_links

\* C6: a run moves through Idle, DiscoveringPages, FetchingArticles (link
\* collection, then content), FetchingComments, Done in that order with no
\* backward transition, and the stages are separated by barriers: no page
\* fetch before discovery returned, no article fetch before every page task
\* completed, no comment fetch before every article task completed.
C6_StagesInOrder ==
    /\ []Barriers
    /\ [][Rank(phase') >= Rank(phase)]_vars

\* C6 witness: a parsing_blog run in its comment stage with two threads, one
\* still being fetched
C6_Witness ==
    /\ entry = "parsing_blog"
    /\ phase = "FetchingComments"
    /\ Len(tasks) = 2
    /\ tasks[1].st = "fetching"
    /\ tasks[2].st = "ok"

\* C7: once started, a run of parsing_blog is never kept from Done by the
\* failure of an individual fetch: no fetch failure aborts the run.
C7_FetchFailureNeverAborts ==
    entry = "parsing_blog" /\ phase = "Crashed" =>
       fatal.exc \notin TransportErrors \cup {"CancelledError", "TypeError"}

\* C8: in a run of parsing_blog the persistence connection is established
\* before any fan-out, so a failure to establish it never aborts a run whose
\* page fetches have been issued.
C8_ConnectBeforeFanout ==
    entry = "parsing_blog" /\ phase = "Crashed" /\ fatal.kind = "connect"
       => ~fanned

\* C9: a storage-layer rejection raised while executing an INSERT is
\* swallowed inside the sink: load_comments does not raise, so no task ends
\* with a database error and no database error aborts the fan-out.
C9_SinkSwallowsRejections ==
    /\ \A i \in DOMAIN tasks : tasks[i].exc \notin DbErrors
    /\ fatal.kind \in {"article", "comment"} => fatal.exc \notin DbErrors

\* C10: when discovery reports last page N, exactly the N page URLs
\* {index}page1/ ... {index}pageN/ are built and one page task is started for
\* each, in that order.
C10_OnePageTaskPerPage ==
    phase = "FetchingPages" =>
       LET pages == TasksOf("page")
       IN  /\ Len(pages) = last_page
           /\ Len(tasks) = last_page
           /\ \A i \in 1..Len(pages) :
                 /\ pages[i].idx = i
                 /\ pages[i].url = main_url \o "page" \o ToString(i) \o "/"
           /\ last_page = 3 =>
                 [i \in 1..3 |-> pages[i].url] =
                    << "https://habr.com/ru/companies/ru_mts/articles/page1/",
                       "https://habr.com/ru/companies/ru_mts/articles/page2/",
                       "https://habr.com/ru/companies/ru_mts/articles/page3/" >>

\* C10 witness: the index page reported 3 pages and the third page task,
\* for page3/, is being fetched
C10_Witness ==
    /\ phase = "FetchingPages"
    /\ last_page = 3
    /\ Len(tasks) = 3
    /\ tasks[3].url = "https://habr.com/ru/companies/ru_mts/articles/page3/"
    /\ tasks[3].st = "fetching"

\* the rows the sink held when the current call began
RowsBefore == IF calls = <<>> THEN 0 ELSE calls[Len(calls)].rows

\* the rows the current call has written
RunRows == SubSeq(sink, RowsBefore + 1, Len(sink))

\* C11: a call of the targeted entry point parsing_articles(urls, flag)
\* starts no discovery and no page fetch and leaves the article-link
\* accumulator as it found it; its article stage holds exactly one article
\* fetch per supplied url, taken from the argument and not from the
\* accumulator; comment fetches exist only with the flag set, one per
\* supplied url, and a call that returned with the flag set has run them;
\* with the flag unset the call writes no comment row.
C11_TargetedFrame ==
    /\ [](entry = "parsing_articles" =>
            /\ ~Started("discover") /\ ~Started("page")
            /\ last_page = NoMarker
            /\ phase = "FetchingArticles" =>
                  /\ Len(tasks) = Len(articles_urls)
                  /\ \A i \in DOMAIN tasks :
                        /\ tasks[i].kind = "article"
                        /\ tasks[i].url = articles_urls[i]
            /\ Started("comment") => parsing_comments
            /\ phase \in {"FetchingComments", "Done"} /\ parsing_comments =>
                  /\ Len(tasks) = Len(articles_urls)
                  /\ \A i \in DOMAIN tasks :
                        /\ tasks[i].kind = "comment"
                        /\ tasks[i].url = articles_urls[i] \o "comments/"
            /\ ~parsing_comments =>
                  \A k \in DOMAIN RunRows : RunRows[k].kind # "comment")
    /\ [][entry' = "parsing_articles" =>
             articles_links' = articles_links]_vars

\* C11 witness: the accumulator holds the link of an earlier parsing_blog,
\* and a targeted call for another url, without comments, has returned with
\* its one article stored
C11_Witness ==
    /\ entry = "parsing_articles"
    /\ phase = "Done"
    /\ ~parsing_comments
    /\ articles_links = <<"https://habr.com/a/">>
    /\ articles_urls = <<"https://habr.com/b/">>
    /\ Len(tasks) = 1 /\ tasks[1].st = "ok"
    /\ Len(RunRows) = 1 /\ RunRows[1].kind = "article"

\* the rows the call before the current one has written
PreviousRows ==
    SubSeq(sink,
           (IF Len(calls) = 1 THEN 0 ELSE calls[Len(calls) - 1].rows) + 1,
           calls[Len(calls)].rows)

\* how many of the rows hold the text
Times(rows, text) == Cardinality({k \in DOMAIN rows : rows[k].text = text})

\* every coroutine of the current call has returned with its rows accepted
Clean == \A i \in DOMAIN tasks : tasks[i].st = "ok" /\ tasks[i].rej = 0

\* the targeted entry point has returned for the second time in a row with
\* the same urls, every fetch and every insert of both calls having succeeded
RerunSame ==
    /\ calls # <<>>
    /\ entry = "parsing_articles" /\ phase = "Done" /\ Clean
    /\ LET prev == calls[Len(calls)]
       IN  /\ prev.entry = "parsing_articles" /\ prev.phase = "Done"
           /\ prev.clean
           /\ prev.urls = articles_urls

\* C12: the sink is append-only and does not deduplicate: no step removes
\* or rewrites a row the sink holds, and when the targeted entry point has
\* run twice with the same urls, every fetch succeeding, the second call has
\* written the same multiset of texts as the first, one row per url each, on
\* top of the rows of the first, so the sink holds every text of the first
\* call twice.
C12_RerunDuplicates ==
    /\ [](RerunSame =>
            /\ Len(PreviousRows) = Len(articles_urls)
            /\ Len(RunRows) = Len(articles_urls)
            /\ \A i \in DOMAIN articles_urls :
                  LET text == "article of " \o articles_urls[i]
                  IN  /\ Times(RunRows, text) = Times(PreviousRows, text)
                      /\ Times(RunRows, text) =
                            Cardinality({j \in DOMAIN articles_urls :
                                           articles_urls[j] = articles_urls[i]})
                      /\ Len(calls) = 1 =>
                            Times(sink, text) = 2 * Times(PreviousRows, text)
            /\ Len(calls) = 1 => Len(sink) = 2 * Len(PreviousRows))
    /\ [][/\ Len(sink') >= Len(sink)
          /\ SubSeq(sink', 1, Len(sink)) = sink]_vars

\* C12 witness: parsing_articles(a, b) has returned twice, its two articles
\* stored in one order by the first call and in the other by the second
C12_Witness ==
    /\ RerunSame
    /\ articles_urls = <<"https://habr.com/a/", "https://habr.com/b/">>
    /\ Len(sink) = 4
    /\ <<sink[1].idx, sink[2].idx, sink[3].idx, sink[4].idx>> = <<1, 2, 2, 1>>
    /\ sink[1].text = sink[4].text

\* C13: a call is over, its entry point having returned or raised to the
\* caller, only when every task of its fan-outs has completed: no page,
\* article or comment fetch of the call is in flight in a state where the
\* call has ended, a failed sibling or not.
C13_OverOnlyWhenAllCompleted ==
    phase \in {"Done", "Crashed"} =>
       \A i \in DOMAIN tasks : tasks[i].st \in Terminal

\* the article links the accumulator held when the current call began
LinksBefore == IF calls = <<>> THEN <<>> ELSE calls[Len(calls)].links

\* the page tasks whose fetch succeeded
PagesRead == {i \in DOMAIN tasks : tasks[i].kind = "page" /\ tasks[i].st = "ok"}

\* the ways to put the elements of S in a row
Orders(S) ==
    {f \in [1..Cardinality(S) -> S] :
        \A a, b \in DOMAIN f : a # b => f[a] # f[b]}

RECURSIVE LinksIn(_)
\* the links of the anchors the page tasks of the row have read, page after
\* page, each page in document order
LinksIn(row) ==
    IF row = <<>> THEN <<>>
    ELSE LET hrefs == tasks[Head(row)].body
         IN  [k \in 1..Len(hrefs) |-> "https://habr.com" \o hrefs[k]]
             \o LinksIn(Tail(row))

\* C14: no update of the article-link accumulator is lost, however the page
\* tasks interleave: all through link collection, and so at its end, the
\* links the call has added are the links read by the page tasks whose fetch
\* succeeded, page after page in the order the tasks got their answers, each
\* page's links together and in document order, links listed on several
\* pages kept each time; a page task that has not succeeded has added none.
C14_NoLostLinks ==
    phase = "FetchingPages" =>
       /\ \A i \in DOMAIN tasks : tasks[i].st # "ok" => tasks[i].body = <<>>
       /\ \E row \in Orders(PagesRead) :
             articles_links = LinksBefore \o LinksIn(row)

\* C14 witness: of three page tasks the second was answered first and
\* listed /a/, the first listed /b/ after it, the third failed
C14_Witness ==
    /\ phase = "FetchingPages"
    /\ Len(tasks) = 3
    /\ tasks[1].st = "ok" /\ tasks[1].body = <<"/b/">>
    /\ tasks[2].st = "ok" /\ tasks[2].body = <<"/a/">>
    /\ tasks[3].st = "warn"
    /\ articles_links = <<"https://habr.com/a/", "https://habr.com/b/">>

\* the comment stage fetches one thread {article}comments/ per element of
\* the article urls, in their order
OneThreadPerArticle ==
    Started("comment") =>
       /\ Len(tasks) = Len(articles_urls)
       /\ \A i \in DOMAIN tasks :
             /\ tasks[i].kind = "comment"
             /\ tasks[i].idx = i
             /\ tasks[i].url = articles_urls[i] \o "comments/"

\* a comment task that returned with every insert accepted has one row per
\* paragraph of its thread, one whose fetch failed (in a call that has not
\* been torn down) has none
RowPerParagraph ==
    \A i \in DOMAIN tasks :
       tasks[i].kind = "comment" =>
          LET n == Count(RunRows, <<"comment", tasks[i].idx>>)
          IN  /\ tasks[i].st = "ok" /\ tasks[i].rej = 0 =>
                    n = Len(tasks[i].body)
              /\ phase # "Crashed"
                 /\ tasks[i].exc \in TransportErrors \cup {"CancelledError"}
                 => n = 0

\* no failed comment fetch ends the comment stage under a comment task that
\* is still in flight
CommentFailureIsolated ==
    ~ /\ phase = "Crashed"
      /\ fatal.kind = "comment"
      /\ fatal.exc \in TransportErrors \cup {"CancelledError"}
      /\ \E i \in DOMAIN tasks : tasks[i].st \in InFlight

\* C15: the comment stage derives and fetches exactly one thread url
\* {article}comments/ per element of the article urls, duplicates included
\* and whether or not the article's own fetch succeeded; a comment fetch
\* that succeeds stores one row per paragraph, one that fails stores none
\* and leaves the other comment tasks alone.
C15_CommentStage ==
    /\ OneThreadPerArticle
    /\ RowPerParagraph
    /\ CommentFailureIsolated

\* C16: the article-link accumulator of an instance only grows, across
\* calls as within one: no step shortens it or changes a link it holds.  So
\* a later parsing_blog call hands parsing_articles the links of the earlier
\* calls followed by the newly collected ones, starts one article fetch for
\* each of them, and (every fetch answered and every row accepted) has
\* stored each of them again when it reaches its comment stage.
C16_AccumulatorKeptAcrossCalls ==
    /\ [][/\ Len(articles_links') >= Len(articles_links)
          /\ SubSeq(articles_links', 1, Len(articles_links)) =
                articles_links]_vars
    /\ [](entry = "parsing_blog" =>
            /\ Len(articles_links) >= Len(LinksBefore)
            /\ SubSeq(articles_links, 1, Len(LinksBefore)) = LinksBefore
            /\ phase = "FetchingArticles" =>
                  /\ Len(tasks) = Len(articles_links)
                  /\ \A i \in DOMAIN tasks :
                        /\ tasks[i].kind = "article"
                        /\ tasks[i].url = articles_links[i]
            /\ phase \in {"FetchingComments", "Done"} =>
                  /\ Len(tasks) = Len(articles_links)
                  /\ \A i \in DOMAIN articles_links :
                        /\ tasks[i].url = articles_links[i] \o "comments/"
                        /\ \E k \in DOMAIN RunRows :
                              /\ RunRows[k].kind = "article"
                              /\ RunRows[k].idx = i
                              /\ RunRows[k].text =
                                    "article of " \o articles_links[i])

\* C16 witness: a first parsing_blog collected and stored /a/; the second
\* found /b/, fetched both and has returned with /a/ in the sink twice
C16_Witness ==
    /\ Len(calls) = 1
    /\ calls[1].entry = "parsing_blog" /\ calls[1].phase = "Done"
    /\ calls[1].links = <<"https://habr.com/a/">>
    /\ entry = "parsing_blog" /\ phase = "Done"
    /\ articles_links = <<"https://habr.com/a/", "https://habr.com/b/">>
    /\ Times(PreviousRows, "article of https://habr.com/a/") = 1
    /\ Times(RunRows, "article of https://habr.com/a/") = 1
    /\ Times(RunRows, "article of https://habr.com/b/") = 1

\* C17: the paragraphs of one comment thread are stored one after the other
\* in document order: the insert of paragraph i has been accepted or
\* rejected before that of paragraph i + 1 is issued, so the rows of one
\* thread stand in the sink in document order, each holding the text of its
\* paragraph, whatever rows of other threads stand between them.
C17_ThreadInDocumentOrder ==
    /\ \A k, l \in DOMAIN RunRows :
          /\ k < l
          /\ RunRows[k].kind = "comment" /\ RunRows[l].kind = "comment"
          /\ RunRows[k].idx = RunRows[l].idx
          => RunRows[k].par < RunRows[l].par
    /\ \A k \in DOMAIN RunRows :
          RunRows[k].kind = "comment" =>
             RunRows[k].text =
                "comment " \o ToString(RunRows[k].par) \o " of "
                   \o articles_urls[RunRows[k].idx] \o "comments/"
    /\ \A i \in DOMAIN tasks :
          tasks[i].kind = "comment" =>
             /\ \A k \in DOMAIN RunRows :
                   /\ RunRows[k].kind = "comment"
                   /\ RunRows[k].idx = tasks[i].idx
                   => RunRows[k].par < tasks[i].pos
             /\ Count(RunRows, <<"comment", tasks[i].idx>>) + tasks[i].rej
                   = tasks[i].pos - 1

\* C17 witness: two threads of two paragraphs each are being stored, a row
\* of the second standing between the two rows of the first
C17_Witness ==
    \E k \in DOMAIN RunRows :
       /\ k + 2 \in DOMAIN RunRows
       /\ \A d \in 0..2 : RunRows[k + d].kind = "comment"
       /\ <<RunRows[k].idx, RunRows[k].par>> = <<1, 1>>
       /\ <<RunRows[k + 1].idx, RunRows[k + 1].par>> = <<2, 1>>
       /\ <<RunRows[k + 2].idx, RunRows[k + 2].par>> = <<1, 2>>

\* C18: the comment-link accumulator self.comments_links is empty in every
\* reachable state: no step of either entry point appends to it, and the
\* urls the comment tasks fetch are derived from the article urls of the
\* call and handed over as arguments.
C18_CommentsLinksEmpty ==
    /\ comments_links = <<>>
    /\ \A i \in DOMAIN tasks :
          tasks[i].kind = "comment" =>
             tasks[i].url = articles_urls[tasks[i].idx] \o "comments/"

\* C18 witness: a parsing_blog call has returned after fetching two comment
\* threads and storing a paragraph, the accumulator still empty
C18_Witness ==
    /\ entry = "parsing_blog" /\ phase = "Done"
    /\ Len(tasks) = 2
    /\ \A i \in DOMAIN tasks : tasks[i].kind = "comment" /\ tasks[i].st = "ok"
    /\ \E k \in DOMAIN sink : sink[k].kind = "comment"
    /\ comments_links = <<>>

=============================================================================
